---- MODULE Spec2Model ----
(***************************************************************************)
(* Model of the sales ETL pipeline of src/main.py: text normalisation,     *)
(* type coercion, de-duplication, business-rule validation with a rejects  *)
(* sink, category standardisation, aggregation and persistence.            *)
(*                                                                         *)
(* Conventions                                                             *)
(*   - a nullable cell is a set: NA == {} is the missing value (NaN/NaT),  *)
(*     Algun(v) == {v} a present value;                                    *)
(*   - a text is a sequence of one-character strings; the character "a'"   *)
(*     stands for the letter a with an acute accent and "'" for the        *)
(*     spacing acute accent U+00B4;                                        *)
(*   - a timestamp is a pair <<dia, hora>>, hora 0 being midnight;         *)
(*   - a raw (unparsed) numeric cell is <<n>> when its text is the literal *)
(*     of n and <<>> when it is not numeric; a raw date cell is the pair   *)
(*     it denotes, or <<>> when its text is no date;                       *)
(*   - a file is NA when absent, else Algun(sequence of lines).            *)
(***************************************************************************)
EXTENDS Integers, Sequences, FiniteSets, TLC

VARIABLES
    pc,             \* per run: the position in main()
    cfg,            \* per run: the configuration loaded by cargar_configuracion
    df,             \* per run: the DataFrame held in main()'s variable df
    entrada,        \* per run: the DataFrame the last stage received
    rechazados,     \* per run: rechazados of validar_reglas_negocio
    modo,           \* per run: the write mode picked by the existence check
    encabezado,     \* per run: the header flag picked by the second check
    resumen,        \* per run: the daily summary
    top_prod,       \* per run: the product ranking
    top_vend,       \* per run: the seller ranking
    nulos,          \* per run: nulos_antes - nulos_despues of the clean-up
    pasos,          \* number of stage applications / runs started
    archRechazos,   \* the rejects sink data/processed/rechazados.csv
    archProcesado,  \* the snapshot ventas_limpias_<date>.csv
    archReporte     \* the report file at report_path

vars == <<pc, cfg, df, entrada, rechazados, modo, encabezado, resumen,
          top_prod, top_vend, nulos, pasos, archRechazos, archProcesado,
          archReporte>>

-----------------------------------------------------------------------------
(* Bounds of the model *)

MaxFilas == 2
MaxCorridas == 2
MaxFilasConc == 1
MaxFilasReglas == 2
MaxFilasLimpieza == 3
MaxFilasAgg == 2
MaxLargoTexto == 4
MaxN == 2

(* The run date: datetime.today().date() *)
Hoy == 1

-----------------------------------------------------------------------------
(* Nullable cells *)

NA == {}
Algun(v) == {v}
Valor(x) == CHOOSE v \in x : TRUE
isna(x) == x = NA
notna(x) == x # NA

Min(a, b) == IF a <= b THEN a ELSE b

SeqToSet(s) == {s[i] : i \in DOMAIN s}

RECURSIVE Suma(_)
Suma(s) == IF s = <<>> THEN 0 ELSE Head(s) + Suma(Tail(s))

RECURSIVE SeqsHasta(_, _)
SeqsHasta(S, n) ==
    IF n = 0 THEN {<<>>}
    ELSE LET prev == SeqsHasta(S, n - 1)
         IN prev \cup {Append(s, x) : s \in {t \in prev : Len(t) = n - 1}, x \in S}

-----------------------------------------------------------------------------
(* Texts *)

Espacio == " "
EsEspacio(c) == c = Espacio

Upper(c) ==
    CASE c = "a" -> "A" [] c = "c" -> "C" [] c = "e" -> "E" [] c = "n" -> "N"
      [] c = "o" -> "O" [] c = "p" -> "P" [] c = "t" -> "T" [] OTHER -> c

Lower(c) ==
    CASE c = "A" -> "a" [] c = "C" -> "c" [] c = "E" -> "e" [] c = "N" -> "n"
      [] c = "O" -> "o" [] c = "P" -> "p" [] c = "T" -> "t" [] OTHER -> c

EsLetra(c) == Upper(c) # c \/ Lower(c) # c \/ c = "a'"

(* The ASCII order of the characters, for sorted group keys *)
Orden(c) ==
    CASE c = " " -> 0 [] c = "A" -> 1 [] c = "C" -> 2 [] c = "E" -> 3
      [] c = "N" -> 4 [] c = "O" -> 5 [] c = "P" -> 6 [] c = "T" -> 7
      [] c = "a" -> 8 [] c = "c" -> 9 [] c = "e" -> 10 [] c = "n" -> 11
      [] c = "o" -> 12 [] c = "p" -> 13 [] c = "t" -> 14 [] OTHER -> 15

RECURSIVE MenorIgualTexto(_, _)
MenorIgualTexto(a, b) ==
    IF a = <<>> THEN TRUE
    ELSE IF b = <<>> THEN FALSE
    ELSE IF Orden(Head(a)) # Orden(Head(b)) THEN Orden(Head(a)) < Orden(Head(b))
    ELSE MenorIgualTexto(Tail(a), Tail(b))

(* str.strip(): leading and trailing whitespace removed *)
RECURSIVE lstrip(_)
lstrip(s) == IF s # <<>> /\ EsEspacio(Head(s)) THEN lstrip(Tail(s)) ELSE s

RECURSIVE rstrip(_)
rstrip(s) ==
    IF s # <<>> /\ EsEspacio(s[Len(s)]) THEN rstrip(SubSeq(s, 1, Len(s) - 1)) ELSE s

strip(s) == rstrip(lstrip(s))

(* unicodedata.normalize('NFKD', c).encode('ASCII', 'ignore') of one
   character: an accented letter decomposes to the letter and a combining
   mark, which is dropped; the spacing acute accent decomposes to a space and
   a combining mark; an ASCII character is kept *)
NFKD_ASCII(c) ==
    CASE c = "a'" -> <<"a">>
      [] c = "'" -> <<" ">>
      [] OTHER -> <<c>>

RECURSIVE QuitarTildes(_)
QuitarTildes(s) ==
    IF s = <<>> THEN <<>> ELSE NFKD_ASCII(Head(s)) \o QuitarTildes(Tail(s))

(* remover_tildes: a str is transliterated, anything else passes through *)
remover_tildes(x) == IF isna(x) THEN x ELSE Algun(QuitarTildes(Valor(x)))

(* astype(str): the missing value prints as "nan" *)
astype_str(x) == IF isna(x) THEN <<"n", "a", "n">> ELSE Valor(x)

TokensNulos == {<<"N", "o", "n", "e">>, <<"n", "a", "n">>, <<"N", "a", "n">>}

reemplazar_tokens(s) == IF s \in TokensNulos THEN NA ELSE Algun(s)

(* The per-value transform of normalizar_texto *)
normalizar_valor(x) == remover_tildes(reemplazar_tokens(strip(astype_str(x))))

(* str.title(): the first letter of each run of letters in upper case, the
   others in lower case *)
Title(s) ==
    [i \in DOMAIN s |->
        IF i = 1 \/ ~EsLetra(s[i - 1]) THEN Upper(s[i]) ELSE Lower(s[i])]

title(x) == IF isna(x) THEN x ELSE Algun(Title(Valor(x)))

-----------------------------------------------------------------------------
(* DataFrames: sequences of rows; idx is the row's index label *)

Criticos == {"fecha", "producto", "cantidad", "precio_unitario"}

Fila(i, f, p, v, s, c, pu) ==
    [idx |-> i, fecha |-> f, producto |-> p, vendedor |-> v, sucursal |-> s,
     cantidad |-> c, precio_unitario |-> pu]

(* The columns of a row, without its index label (to_csv(index=False),
   and what drop_duplicates compares) *)
Columnas(r) ==
    [fecha |-> r.fecha, producto |-> r.producto, vendedor |-> r.vendedor,
     sucursal |-> r.sucursal, cantidad |-> r.cantidad,
     precio_unitario |-> r.precio_unitario]

Index(d) == {d[i].idx : i \in DOMAIN d}

(* The rows of d at the positions K, in d's order *)
RECURSIVE Tomar(_, _, _)
Tomar(d, K, i) ==
    IF i > Len(d) THEN <<>>
    ELSE (IF i \in K THEN <<d[i]>> ELSE <<>>) \o Tomar(d, K, i + 1)

(* pd.concat(..., ignore_index=True): a fresh RangeIndex *)
ignore_index(d) == [i \in DOMAIN d |-> [d[i] EXCEPT !.idx = i]]

normalizar_texto(d) ==
    [i \in DOMAIN d |->
        [d[i] EXCEPT !.producto = normalizar_valor(@),
                     !.vendedor = normalizar_valor(@),
                     !.sucursal = normalizar_valor(@)]]

(* pd.to_datetime / pd.to_numeric with errors="coerce" *)
to_datetime(x) == IF notna(x) /\ Len(Valor(x)) = 2 THEN x ELSE NA
to_numeric(x) == IF notna(x) /\ Len(Valor(x)) = 1 THEN Algun(Valor(x)[1]) ELSE NA

tipificar_campos(d) ==
    [i \in DOMAIN d |->
        [d[i] EXCEPT !.fecha = to_datetime(@),
                     !.cantidad = to_numeric(@),
                     !.precio_unitario = to_numeric(@)]]

(* Mutant: keep="last" *)
drop_duplicates_keep_last(d) ==
    Tomar(d, {i \in DOMAIN d :
                ~\E j \in (i + 1)..Len(d) : Columnas(d[j]) = Columnas(d[i])}, 1)

drop_duplicates(d) ==
    Tomar(d, {i \in DOMAIN d :
                ~\E j \in 1..(i - 1) : Columnas(d[j]) = Columnas(d[i])}, 1)

(* The number of missing cells of a row among the critical columns *)
NulosCriticos(r) == Cardinality({c \in Criticos : isna(r[c])})

(* df[criticos].isna().sum().sum() *)
ContarNulos(d) == Suma([i \in DOMAIN d |-> NulosCriticos(d[i])])

dropna_criticos(d) == Tomar(d, {i \in DOMAIN d : NulosCriticos(d[i]) = 0}, 1)

(* Mutant: the dropna step is left out *)
limpiar_sin_dropna(d) == drop_duplicates(d)

limpiar_duplicados_y_nulos(d) == dropna_criticos(drop_duplicates(d))

nulos_eliminados(d) ==
    ContarNulos(drop_duplicates(d)) - ContarNulos(limpiar_duplicados_y_nulos(d))

(* Timestamps *)
hoy == <<Hoy, 0>>
Posterior(f, h) == f[1] > h[1] \/ (f[1] = h[1] /\ f[2] > h[2])

mask_futuras(r) == notna(r.fecha) /\ Posterior(Valor(r.fecha), hoy)
mask_precio_invalido(r) ==
    (notna(r.precio_unitario) /\ Valor(r.precio_unitario) <= 0)
    \/ isna(r.precio_unitario)
mask_cantidad_invalida(r) ==
    (notna(r.cantidad) /\ Valor(r.cantidad) <= 0) \/ isna(r.cantidad)
mask_fecha_invalida(r) == isna(r.fecha)

Rechazado(r) ==
    mask_futuras(r) \/ mask_precio_invalido(r) \/ mask_cantidad_invalida(r)
    \/ mask_fecha_invalida(r)

(* df[mask].copy() *)
Rechazados(d) == Tomar(d, {i \in DOMAIN d : Rechazado(d[i])}, 1)

(* df.drop(labels): every row whose label is among labels is removed *)
drop(d, labels) == Tomar(d, {i \in DOMAIN d : d[i].idx \notin labels}, 1)

(* Mutant: only the future-dated rows are dropped *)
df_valido_solo_futuras(d) ==
    drop(d, Index(Tomar(d, {i \in DOMAIN d : mask_futuras(d[i])}, 1)))

df_valido(d) == drop(d, Index(Rechazados(d)))

estandarizar_categorias(d) ==
    [i \in DOMAIN d |->
        [d[i] EXCEPT !.sucursal = title(@), !.producto = title(@),
                     !.vendedor = title(@)]]

-----------------------------------------------------------------------------
(* Aggregation *)

Mult(x, y) == IF isna(x) \/ isna(y) THEN NA ELSE Algun(Valor(x) * Valor(y))

crear_monto_total(d) ==
    [i \in DOMAIN d |->
        [idx |-> d[i].idx, fecha |-> d[i].fecha, producto |-> d[i].producto,
         vendedor |-> d[i].vendedor, sucursal |-> d[i].sucursal,
         cantidad |-> d[i].cantidad, precio_unitario |-> d[i].precio_unitario,
         monto_total |-> Mult(d[i].cantidad, d[i].precio_unitario)]]

(* Series.sum(): missing values are skipped *)
SumaSerie(s) == Suma([i \in DOMAIN s |-> IF isna(s[i]) THEN 0 ELSE Valor(s[i])])

(* Series.count(): the number of present values *)
Contar(s) == Suma([i \in DOMAIN s |-> IF isna(s[i]) THEN 0 ELSE 1])

(* .dt.date: the calendar date of a timestamp *)
dt_date(x) == IF isna(x) THEN NA ELSE Algun(Valor(x)[1])

RECURSIVE MCD(_, _)
MCD(a, b) == IF b = 0 THEN a ELSE MCD(b, a % b)

(* The quotient a / b as a fraction in lowest terms *)
Fraccion(a, b) == LET g == MCD(a, b) IN <<a \div g, b \div g>>

(* ventas_totales / tickets, with inf and -inf (and 0/0) replaced by NaN *)
Dividir(a, b) == IF b = 0 THEN NA ELSE Algun(Fraccion(a, b))

ClaveResumen(r) == <<dt_date(r.fecha), r.sucursal>>

(* Mutant: dropna=True, keys holding a missing value are left out *)
ClavesResumenDropna(d) ==
    {ClaveResumen(d[i]) :
        i \in {j \in DOMAIN d : notna(d[j].fecha) /\ notna(d[j].sucursal)}}

(* dropna=False: a group key may hold a missing value *)
ClavesResumen(d) == {ClaveResumen(d[i]) : i \in DOMAIN d}

(* The sort order of group keys; a missing value sorts last *)
MenorIgualFecha(x, y) == isna(y) \/ (notna(x) /\ Valor(x) <= Valor(y))
MenorIgualSucursal(x, y) ==
    isna(y) \/ (notna(x) /\ MenorIgualTexto(Valor(x), Valor(y)))
MenorIgualClave(k, l) ==
    IF k[1] # l[1] THEN MenorIgualFecha(k[1], l[1])
    ELSE MenorIgualSucursal(k[2], l[2])

RECURSIVE OrdenarClaves(_)
OrdenarClaves(K) ==
    IF K = {} THEN <<>>
    ELSE LET m == CHOOSE k \in K : \A l \in K : MenorIgualClave(k, l)
         IN <<m>> \o OrdenarClaves(K \ {m})

Grupo(d, k) == Tomar(d, {i \in DOMAIN d : ClaveResumen(d[i]) = k}, 1)

FilaResumen(d, k) ==
    LET g == Grupo(d, k)
        ventas == SumaSerie([i \in DOMAIN g |-> g[i].monto_total])
        tickets == Contar([i \in DOMAIN g |-> g[i].producto])
    IN [fecha |-> k[1], sucursal |-> k[2], ventas_totales |-> ventas,
        unidades |-> SumaSerie([i \in DOMAIN g |-> g[i].cantidad]),
        tickets |-> tickets, ticket_promedio |-> Dividir(ventas, tickets)]

resumen_diario_por_sucursal(d) ==
    LET claves == OrdenarClaves(ClavesResumen(d))
    IN [j \in DOMAIN claves |-> FilaResumen(d, claves[j])]

RECURSIVE Permutaciones(_)
Permutaciones(S) ==
    IF S = {} THEN {<<>>}
    ELSE UNION {{<<x>> \o q : q \in Permutaciones(S \ {x})} : x \in S}

head(s, n) == SubSeq(s, 1, Min(n, Len(s)))

(* groupby(col)["monto_total"].sum(): one entry per present key *)
SumaPor(d, col) ==
    {[clave |-> k,
      monto_total |-> SumaSerie([i \in DOMAIN d |->
                          IF d[i][col] = Algun(k) THEN d[i].monto_total ELSE NA])]
        : k \in {Valor(d[i][col]) : i \in {j \in DOMAIN d : notna(d[j][col])}}}

(* Mutant: ascending order *)
OrdenAscendente(a, b) == a <= b

(* sort_values(ascending=False) places a before b *)
OrdenProductos(a, b) == a >= b

(* sort_values() places a before b *)
OrdenVendedores(a, b) == a <= b

(* The rankings sort_values(...).head(n) may return: the order of entries
   with equal sums is not fixed by the (unstable) default sort *)
top_productos(d, n) ==
    {head(s, n) : s \in {q \in Permutaciones(SumaPor(d, "producto")) :
        \A i \in 1..(Len(q) - 1) :
            OrdenProductos(q[i].monto_total, q[i + 1].monto_total)}}

SinVendedor == <<"S", "i", "n", " ", "V", "e", "n", "d", "e", "d", "o", "r">>

fillna_vendedor(d) ==
    [i \in DOMAIN d |->
        [d[i] EXCEPT !.vendedor = IF isna(@) THEN Algun(SinVendedor) ELSE @]]

top_vendedores(d, n) ==
    {head(s, n) : s \in {q \in Permutaciones(SumaPor(fillna_vendedor(d), "vendedor")) :
        \A i \in 1..(Len(q) - 1) :
            OrdenVendedores(q[i].monto_total, q[i + 1].monto_total)}}

-----------------------------------------------------------------------------
(* Files *)

LineaEncabezado == [tipo |-> "encabezado", datos |-> NA]
LineaFila(r) == [tipo |-> "fila", datos |-> Algun(r)]

(* The lines DataFrame.to_csv(index=False, header=h) writes *)
Lineas(filas, h) ==
    (IF h THEN <<LineaEncabezado>> ELSE <<>>)
    \o [i \in DOMAIN filas |-> LineaFila(filas[i])]

(* Mutant: an existing file is appended to whatever the mode *)
to_csv_siempre_anexa(archivo, filas, m, h) ==
    IF notna(archivo)
    THEN Algun(Valor(archivo) \o Lineas(filas, h))
    ELSE Algun(Lineas(filas, h))

(* open(path, mode) and write: "a" appends to an existing file, "w"
   truncates it; both create an absent file *)
to_csv(archivo, filas, m, h) ==
    IF m = "a" /\ notna(archivo)
    THEN Algun(Valor(archivo) \o Lineas(filas, h))
    ELSE Algun(Lineas(filas, h))

(* os.path.exists *)
exists(archivo) == notna(archivo)

(* modo = "a" if os.path.exists(path) else "w" *)
elegir_modo(archivo) == IF exists(archivo) THEN "a" ELSE "w"

(* Mutant: a header with every write *)
encabezado_siempre(archivo) == TRUE

(* encabezado = not os.path.exists(path) *)
elegir_encabezado(archivo) == ~exists(archivo)

SinIndice(d) == [i \in DOMAIN d |-> Columnas(d[i])]

-----------------------------------------------------------------------------
(* Inputs *)

Corridas == {1, 2}

Claves == {"raw_data_path", "columns_to_keep", "processed_data_path", "report_path"}

ConfigCompleta == [legible |-> TRUE, claves |-> Claves]
ConfigIlegible == [legible |-> FALSE, claves |-> {}]

(* A configuration that does not load, a complete one, and one lacking a key *)
Configs ==
    {ConfigIlegible, ConfigCompleta}
    \cup {[legible |-> TRUE, claves |-> Claves \ {k}] : k \in Claves}

Pan == <<"p", "a", "n">>
Te == <<"t", "e">>
Centro == <<"c">>

(* Raw rows as read from the CSV files *)
FilasCrudas ==
    {Fila(0, Algun(<<Hoy, 0>>), Algun(<<"p", "a'", "n", " ">>), NA, Algun(Centro),
          Algun(<<1>>), Algun(<<2>>)),
     Fila(0, Algun(<<Hoy + 1, 0>>), Algun(Pan), NA, Algun(Centro),
          Algun(<<1>>), Algun(<<2>>)),
     Fila(0, Algun(<<Hoy, 0>>), Algun(Pan), NA, Algun(Centro),
          Algun(<<>>), Algun(<<2>>)),
     Fila(0, Algun(<<Hoy, 0>>), Algun(Te), NA, NA, Algun(<<0>>), Algun(<<2>>))}

(* What leer_archivos_csv returns: the concatenated rows, and whether the
   frame holds the columns of columns_to_keep *)
Lecturas(n) ==
    {[filas |-> ignore_index(s), columnas |-> TRUE] : s \in SeqsHasta(FilasCrudas, n)}
    \cup {[filas |-> ignore_index(<<f>>), columnas |-> FALSE] : f \in FilasCrudas}

NTop == 5

-----------------------------------------------------------------------------
(* The pipeline: main() *)

Terminado(p) ==
    pc[p] \in {"inactivo", "fin", "sin_datos", "abortado_config",
                           "abortado_columnas"}

(* Lines 60-61: cargar_configuracion; an unreadable configuration raises *)
CargarConfiguracion(p, c) ==
    /\ pasos' = pasos + 1
    /\ cfg' = [cfg EXCEPT ![p] = c]
    /\ pc' = [pc EXCEPT ![p] = IF c.legible THEN "leer" ELSE "abortado_config"]
    /\ df' = [df EXCEPT ![p] = <<>>]
    /\ rechazados' = [rechazados EXCEPT ![p] = <<>>]
    /\ entrada' = [entrada EXCEPT ![p] = <<>>]
    /\ modo' = [modo EXCEPT ![p] = "-"]
    /\ encabezado' = [encabezado EXCEPT ![p] = FALSE]
    /\ resumen' = [resumen EXCEPT ![p] = <<>>]
    /\ top_prod' = [top_prod EXCEPT ![p] = <<>>]
    /\ top_vend' = [top_vend EXCEPT ![p] = <<>>]
    /\ nulos' = [nulos EXCEPT ![p] = 0]
    /\ UNCHANGED <<archRechazos, archProcesado, archReporte>>

(* One run after the other: a run starts when no run is in progress *)
IniciarCorrida(p) ==
    /\ Terminado(p)
    /\ pasos < MaxCorridas
    /\ \E c \in Configs : CargarConfiguracion(p, c)

(* Two runs started independently, each once, with a complete configuration *)
IniciarConcurrente(p) ==
    /\ pc[p] = "inactivo"
    /\ CargarConfiguracion(p, ConfigCompleta)

(* Lines 63-81: ingestion, column filter, normalisation, type coercion and
   clean-up *)
Preparar(p, lectura) ==
    /\ pc[p] = "leer"
    /\ IF "raw_data_path" \notin cfg[p].claves
       THEN /\ pc' = [pc EXCEPT ![p] = "abortado_config"]
            /\ UNCHANGED <<df, nulos>>
       ELSE IF lectura.filas = <<>>
       THEN /\ pc' = [pc EXCEPT ![p] = "sin_datos"]
            /\ UNCHANGED <<df, nulos>>
       ELSE IF "columns_to_keep" \notin cfg[p].claves
       THEN /\ pc' = [pc EXCEPT ![p] = "abortado_config"]
            /\ UNCHANGED <<df, nulos>>
       ELSE IF ~lectura.columnas
       THEN /\ pc' = [pc EXCEPT ![p] = "abortado_columnas"]
            /\ UNCHANGED <<df, nulos>>
       ELSE LET t == tipificar_campos(normalizar_texto(lectura.filas))
            IN /\ pc' = [pc EXCEPT ![p] = "validar"]
               /\ df' = [df EXCEPT ![p] = limpiar_duplicados_y_nulos(t)]
               /\ nulos' = [nulos EXCEPT ![p] = nulos_eliminados(t)]
    /\ UNCHANGED <<cfg, entrada, rechazados, modo, encabezado, resumen, top_prod,
                   top_vend, pasos, archRechazos, archProcesado, archReporte>>

LeerYLimpiar(p) == \E lectura \in Lecturas(MaxFilas) : Preparar(p, lectura)

LeerYLimpiarConc(p) == \E lectura \in Lecturas(MaxFilasConc) : Preparar(p, lectura)

(* validar_reglas_negocio, lines 130-137 *)
Validar(p) ==
    /\ pc[p] = "validar"
    /\ entrada' = [entrada EXCEPT ![p] = df[p]]
    /\ rechazados' = [rechazados EXCEPT ![p] = Rechazados(df[p])]
    /\ df' = [df EXCEPT ![p] = df_valido(df[p])]
    /\ pc' = [pc EXCEPT ![p] =
                IF Rechazados(df[p]) # <<>> THEN "modo_rechazos" ELSE "estandarizar"]
    /\ UNCHANGED <<cfg, modo, encabezado, resumen, top_prod, top_vend, nulos,
                   pasos, archRechazos, archProcesado, archReporte>>

(* line 139: modo = "a" if os.path.exists(ruta_rechazos) else "w" *)
ElegirModoRechazos(p) ==
    /\ pc[p] = "modo_rechazos"
    /\ modo' = [modo EXCEPT ![p] = elegir_modo(archRechazos)]
    /\ pc' = [pc EXCEPT ![p] = "encabezado_rechazos"]
    /\ UNCHANGED <<cfg, df, entrada, rechazados, encabezado, resumen, top_prod,
                   top_vend, nulos, pasos, archRechazos, archProcesado, archReporte>>

(* line 140: encabezado = not os.path.exists(ruta_rechazos) *)
ElegirEncabezadoRechazos(p) ==
    /\ pc[p] = "encabezado_rechazos"
    /\ encabezado' = [encabezado EXCEPT ![p] = elegir_encabezado(archRechazos)]
    /\ pc' = [pc EXCEPT ![p] = "escribir_rechazos"]
    /\ UNCHANGED <<cfg, df, entrada, rechazados, modo, resumen, top_prod,
                   top_vend, nulos, pasos, archRechazos, archProcesado, archReporte>>

(* line 141: rechazados.to_csv(ruta_rechazos, index=False, mode=modo, header=encabezado) *)
EscribirRechazos(p) ==
    /\ pc[p] = "escribir_rechazos"
    /\ archRechazos' = to_csv(archRechazos, SinIndice(rechazados[p]), modo[p],
                              encabezado[p])
    /\ pc' = [pc EXCEPT ![p] = "estandarizar"]
    /\ UNCHANGED <<cfg, df, entrada, rechazados, modo, encabezado, resumen,
                   top_prod, top_vend, nulos, pasos, archProcesado, archReporte>>

(* lines 83-84: estandarizar_categorias, then config["processed_data_path"]
   and guardar_procesado, which overwrites the snapshot of the run date *)
GuardarProcesado(p) ==
    /\ pc[p] = "estandarizar"
    /\ df' = [df EXCEPT ![p] = estandarizar_categorias(df[p])]
    /\ IF "processed_data_path" \in cfg[p].claves
       THEN /\ archProcesado' = to_csv(archProcesado,
                                       SinIndice(estandarizar_categorias(df[p])),
                                       "w", TRUE)
            /\ pc' = [pc EXCEPT ![p] = "agregar"]
       ELSE /\ pc' = [pc EXCEPT ![p] = "abortado_config"]
            /\ UNCHANGED archProcesado
    /\ UNCHANGED <<cfg, entrada, rechazados, modo, encabezado, resumen, top_prod,
                   top_vend, nulos, pasos, archRechazos, archReporte>>

(* lines 85-86: crear_monto_total and resumen_diario_por_sucursal *)
Agregar(p) ==
    /\ pc[p] = "agregar"
    /\ entrada' = [entrada EXCEPT ![p] = df[p]]
    /\ df' = [df EXCEPT ![p] = crear_monto_total(df[p])]
    /\ resumen' = [resumen EXCEPT ![p] =
                      resumen_diario_por_sucursal(crear_monto_total(df[p]))]
    /\ pc' = [pc EXCEPT ![p] = "modo_reporte"]
    /\ UNCHANGED <<cfg, rechazados, modo, encabezado, top_prod, top_vend, nulos,
                   pasos, archRechazos, archProcesado, archReporte>>

(* line 87: config["report_path"]; line 195: modo = "a" if exists else "w" *)
ElegirModoReporte(p) ==
    /\ pc[p] = "modo_reporte"
    /\ IF "report_path" \in cfg[p].claves
       THEN /\ modo' = [modo EXCEPT ![p] = elegir_modo(archReporte)]
            /\ pc' = [pc EXCEPT ![p] = "encabezado_reporte"]
       ELSE /\ pc' = [pc EXCEPT ![p] = "abortado_config"]
            /\ UNCHANGED modo
    /\ UNCHANGED <<cfg, df, entrada, rechazados, encabezado, resumen, top_prod,
                   top_vend, nulos, pasos, archRechazos, archProcesado, archReporte>>

(* line 196: header = not os.path.exists(report_path) *)
ElegirEncabezadoReporte(p) ==
    /\ pc[p] = "encabezado_reporte"
    /\ encabezado' = [encabezado EXCEPT ![p] = elegir_encabezado(archReporte)]
    /\ pc' = [pc EXCEPT ![p] = "escribir_reporte"]
    /\ UNCHANGED <<cfg, df, entrada, rechazados, modo, resumen, top_prod,
                   top_vend, nulos, pasos, archRechazos, archProcesado, archReporte>>

(* line 197: df_resumen.to_csv(report_path, index=False, mode=modo, header=header) *)
EscribirReporte(p) ==
    /\ pc[p] = "escribir_reporte"
    /\ archReporte' = to_csv(archReporte, resumen[p], modo[p], encabezado[p])
    /\ pc' = [pc EXCEPT ![p] = "tops"]
    /\ UNCHANGED <<cfg, df, entrada, rechazados, modo, encabezado, resumen,
                   top_prod, top_vend, nulos, pasos, archRechazos, archProcesado>>

(* lines 89-90: the two rankings, for a ranking size n *)
Rankings(p, n) ==
    /\ pc[p] = "tops"
    /\ \E tp \in top_productos(df[p], n), tv \in top_vendedores(df[p], n) :
          /\ top_prod' = [top_prod EXCEPT ![p] = [n |-> n, g |-> tp]]
          /\ top_vend' = [top_vend EXCEPT ![p] = [n |-> n, g |-> tv]]
    /\ pc' = [pc EXCEPT ![p] = "fin"]
    /\ UNCHANGED <<cfg, df, entrada, rechazados, modo, encabezado, resumen,
                   nulos, pasos, archRechazos, archProcesado, archReporte>>

Tops(p) == Rankings(p, NTop)

Inactivas ==
    /\ pc = [p \in Corridas |-> "inactivo"]
    /\ cfg = [p \in Corridas |-> ConfigIlegible]
    /\ df = [p \in Corridas |-> <<>>]
    /\ entrada = [p \in Corridas |-> <<>>]
    /\ rechazados = [p \in Corridas |-> <<>>]
    /\ modo = [p \in Corridas |-> "-"]
    /\ encabezado = [p \in Corridas |-> FALSE]
    /\ resumen = [p \in Corridas |-> <<>>]
    /\ top_prod = [p \in Corridas |-> <<>>]
    /\ top_vend = [p \in Corridas |-> <<>>]
    /\ nulos = [p \in Corridas |-> 0]
    /\ pasos = 0

ArchivosAusentes ==
    /\ archRechazos = NA
    /\ archProcesado = NA
    /\ archReporte = NA

Init == Inactivas /\ ArchivosAusentes

Paso(p) ==
    \/ Validar(p)
    \/ ElegirModoRechazos(p)
    \/ ElegirEncabezadoRechazos(p)
    \/ EscribirRechazos(p)
    \/ GuardarProcesado(p)
    \/ Agregar(p)
    \/ ElegirModoReporte(p)
    \/ ElegirEncabezadoReporte(p)
    \/ EscribirReporte(p)
    \/ Tops(p)

(* Non-overlapping runs of the pipeline *)
Next == IniciarCorrida(1) \/ LeerYLimpiar(1) \/ Paso(1)

Spec == Init /\ [][Next]_vars

(* Two runs of the pipeline executing concurrently on the same paths *)
NextConc ==
    \E p \in Corridas : IniciarConcurrente(p) \/ LeerYLimpiarConc(p) \/ Paso(p)

SpecConc == Init /\ [][NextConc]_vars

-----------------------------------------------------------------------------
(* normalizar_texto applied to arbitrary text values, twice *)

CaracteresTexto == {" ", "N", "n", "a", "o", "e", "a'", "'"}

TextosCrudos ==
    {NA} \cup {Algun(t) : t \in SeqsHasta(CaracteresTexto, MaxLargoTexto)}

NormalizarTexto(p) ==
    /\ pc[p] = "normalizar"
    /\ pasos < 2
    /\ entrada' = [entrada EXCEPT ![p] = df[p]]
    /\ df' = [df EXCEPT ![p] = normalizar_texto(df[p])]
    /\ pasos' = pasos + 1
    /\ UNCHANGED <<pc, cfg, rechazados, modo, encabezado, resumen, top_prod,
                   top_vend, nulos, archRechazos, archProcesado, archReporte>>

EnEtapa(etapa, D) ==
    /\ pc = [p \in Corridas |-> IF p = 1 THEN etapa ELSE "inactivo"]
    /\ cfg = [p \in Corridas |-> IF p = 1 THEN ConfigCompleta ELSE ConfigIlegible]
    /\ df \in {[p \in Corridas |-> IF p = 1 THEN d ELSE <<>>] : d \in D}
    /\ entrada = [p \in Corridas |-> <<>>]
    /\ rechazados = [p \in Corridas |-> <<>>]
    /\ modo = [p \in Corridas |-> "-"]
    /\ encabezado = [p \in Corridas |-> FALSE]
    /\ resumen = [p \in Corridas |-> <<>>]
    /\ top_prod = [p \in Corridas |-> <<>>]
    /\ top_vend = [p \in Corridas |-> <<>>]
    /\ nulos = [p \in Corridas |-> 0]
    /\ pasos = 0
    /\ ArchivosAusentes

InitTexto ==
    EnEtapa("normalizar",
            {<<Fila(1, NA, t, NA, Algun(Centro), NA, NA)>> : t \in TextosCrudos})

NextTexto == NormalizarTexto(1)

SpecTexto == InitTexto /\ [][NextTexto]_vars

-----------------------------------------------------------------------------
(* limpiar_duplicados_y_nulos applied to arbitrary typed frames, twice *)

FilasLimpieza ==
    {Fila(0, f, p, NA, Algun(Centro), c, pu) :
        f \in {NA, Algun(<<Hoy, 0>>)}, p \in {NA, Algun(Pan)},
        c \in {NA, Algun(1)}, pu \in {NA, Algun(2)}}

Limpiar(p) ==
    /\ pc[p] = "limpiar"
    /\ pasos < 2
    /\ entrada' = [entrada EXCEPT ![p] = df[p]]
    /\ df' = [df EXCEPT ![p] = limpiar_duplicados_y_nulos(df[p])]
    /\ nulos' = [nulos EXCEPT ![p] = nulos_eliminados(df[p])]
    /\ pasos' = pasos + 1
    /\ UNCHANGED <<pc, cfg, rechazados, modo, encabezado, resumen, top_prod,
                   top_vend, archRechazos, archProcesado, archReporte>>

InitLimpieza ==
    EnEtapa("limpiar",
            {ignore_index(s) : s \in SeqsHasta(FilasLimpieza, MaxFilasLimpieza)})

NextLimpieza == Limpiar(1)

SpecLimpieza == InitLimpieza /\ [][NextLimpieza]_vars

-----------------------------------------------------------------------------
(* validar_reglas_negocio applied to arbitrary typed frames *)

FilasReglas ==
    {Fila(0, f, Algun(Pan), NA, Algun(Centro), c, pu) :
        f \in {NA, Algun(<<Hoy, 0>>), Algun(<<Hoy, 1>>), Algun(<<Hoy + 1, 0>>)},
        c \in {NA, Algun(0), Algun(1)},
        pu \in {NA, Algun(-1), Algun(2)}}

InitReglas ==
    EnEtapa("validar",
            {ignore_index(s) : s \in SeqsHasta(FilasReglas, MaxFilasReglas)})

NextReglas ==
    \/ Validar(1)
    \/ ElegirModoRechazos(1)
    \/ ElegirEncabezadoRechazos(1)
    \/ EscribirRechazos(1)

SpecReglas == InitReglas /\ [][NextReglas]_vars

-----------------------------------------------------------------------------
(* The aggregations applied to arbitrary valid frames and ranking sizes *)

FilasValidas ==
    {Fila(0, Algun(f), Algun(p), NA, s, Algun(c), Algun(3)) :
        f \in {<<Hoy - 1, 0>>, <<Hoy - 1, 1>>, <<Hoy, 0>>},
        p \in {Title(Pan), Title(Te)},
        s \in {NA, Algun(Title(Centro))},
        c \in {1, 2}}

TopsN(p) == \E n \in 0..MaxN : Rankings(p, n)

InitAgg ==
    EnEtapa("agregar",
            {ignore_index(s) : s \in SeqsHasta(FilasValidas, MaxFilasAgg)})

NextAgg ==
    \/ Agregar(1)
    \/ ElegirModoReporte(1)
    \/ ElegirEncabezadoReporte(1)
    \/ EscribirReporte(1)
    \/ TopsN(1)

SpecAgg == InitAgg /\ [][NextAgg]_vars

-----------------------------------------------------------------------------
(* Properties *)

FilasDe(archivo) ==
    IF isna(archivo) THEN <<>>
    ELSE SelectSeq(Valor(archivo), LAMBDA l : l.tipo = "fila")

(* The file holds exactly one header line, and it is the first line *)
EncabezadoUnico(archivo) ==
    notna(archivo) =>
        /\ Len(Valor(archivo)) >= 1
        /\ Valor(archivo)[1].tipo = "encabezado"
        /\ \A i \in 2..Len(Valor(archivo)) : Valor(archivo)[i].tipo = "fila"

SinNulosCriticos(r) ==
    notna(r.fecha) /\ notna(r.producto) /\ notna(r.cantidad)
    /\ notna(r.precio_unitario)

RECURSIVE SumaConj(_, _)
SumaConj(f, S) ==
    IF S = {} THEN 0
    ELSE LET x == CHOOSE y \in S : TRUE IN f[x] + SumaConj(f, S \ {x})

TrasValidar(p) ==
    pc[p] \in {"modo_rechazos", "encabezado_rechazos", "escribir_rechazos",
               "estandarizar"}

Posicion(d, r) == CHOOSE k \in DOMAIN d : d[k] = r

(* C1: after validar_reglas_negocio the valid rows and the rejected rows are
   disjoint, together they are the rows of the input, each exactly once
   (|valid| + |rejected| = |input|), and the valid rows keep their relative
   input order. *)
C1_Particion ==
    TrasValidar(1) =>
        LET in == entrada[1]
            v == df[1]
            r == rechazados[1]
        IN /\ Index(v) \cap Index(r) = {}
           /\ SeqToSet(v) \cap SeqToSet(r) = {}
           /\ SeqToSet(v) \cup SeqToSet(r) = SeqToSet(in)
           /\ Len(v) + Len(r) = Len(in)
           /\ \A i, j \in DOMAIN v :
                 i < j => Posicion(in, v[i]) < Posicion(in, v[j])

C1_Witness ==
    /\ pc[1] = "estandarizar"
    /\ Len(entrada[1]) >= 2
    /\ Rechazado(entrada[1][1])
    /\ ~Rechazado(entrada[1][2])
    /\ Len(df[1]) >= 1

(* The rejection rule as the contract states it: against the calendar date *)
RechazoSegunContrato(r) ==
    \/ isna(r.fecha)
    \/ (notna(r.fecha) /\ Valor(dt_date(r.fecha)) > Hoy)
    \/ isna(r.precio_unitario)
    \/ (notna(r.precio_unitario) /\ Valor(r.precio_unitario) <= 0)
    \/ isna(r.cantidad)
    \/ (notna(r.cantidad) /\ Valor(r.cantidad) <= 0)

(* C2: validar_reglas_negocio rejects a row if and only if its fecha is
   missing or strictly after today, or its precio_unitario or cantidad is
   missing or <= 0; a valid row dated today is accepted. *)
C2_ReglasSegunContrato ==
    TrasValidar(1) =>
        \A i \in DOMAIN entrada[1] :
            (entrada[1][i] \in SeqToSet(rechazados[1]))
                <=> RechazoSegunContrato(entrada[1][i])

EsPrefijo(a, b) == Len(a) <= Len(b) /\ SubSeq(b, 1, Len(a)) = a

SoloAgrega(archivo, archivoSig) ==
    notna(archivo) =>
        /\ notna(archivoSig)
        /\ EsPrefijo(Valor(archivo), Valor(archivoSig))

(* C3: in non-overlapping runs starting with the rejects sink and the report
   absent, each file, once created, holds exactly one header line, the first
   one; a later write only adds the run's rows after the existing content; and
   a run without rejected rows does not touch the rejects sink. *)
C3_EncabezadoUnaVezYAnexar ==
    /\ [](EncabezadoUnico(archRechazos) /\ EncabezadoUnico(archReporte))
    /\ [][/\ SoloAgrega(archRechazos, archRechazos')
          /\ SoloAgrega(archReporte, archReporte')
          /\ archRechazos' # archRechazos =>
                /\ rechazados[1] # <<>>
                /\ FilasDe(archRechazos') =
                      FilasDe(archRechazos)
                      \o Lineas(SinIndice(rechazados[1]), FALSE)
          /\ archReporte' # archReporte =>
                FilasDe(archReporte') =
                    FilasDe(archReporte) \o Lineas(resumen[1], FALSE)]_vars

C3_Witness ==
    /\ pasos = 2
    /\ pc[1] = "fin"
    /\ modo[1] = "a"
    /\ Len(FilasDe(archRechazos)) > Len(rechazados[1])
    /\ rechazados[1] # <<>>
    /\ Len(FilasDe(archReporte)) >= 2

(* C6: a run that aborts on an unreadable or incomplete configuration, or on
   absent columns, has written neither the rejects sink, nor the snapshot,
   nor the report (stated for the first run, which starts with none of
   them). *)
C6_AbortoSinEscribir ==
    (pasos = 1 /\ pc[1] \in {"abortado_config", "abortado_columnas"}) =>
        /\ archRechazos = NA
        /\ archProcesado = NA
        /\ archReporte = NA

(* C7: applying normalizar_texto to its own output changes nothing. *)
C7_NormalizarIdempotente ==
    pasos = 2 => df[1] = entrada[1]

(* C8: the output of limpiar_duplicados_y_nulos holds no two identical rows
   and no row with a missing critical field; it is the first occurrence of
   each row without such a missing value, in input order; applying it again
   changes nothing. *)
C8_LimpiarSinDuplicadosNiNulos ==
    /\ pasos >= 1 =>
          /\ \A i, j \in DOMAIN df[1] :
                Columnas(df[1][i]) = Columnas(df[1][j]) => i = j
          /\ \A i \in DOMAIN df[1] : SinNulosCriticos(df[1][i])
          /\ \A i \in DOMAIN entrada[1] :
                (entrada[1][i] \in SeqToSet(df[1])) <=>
                    /\ SinNulosCriticos(entrada[1][i])
                    /\ \A j \in 1..(i - 1) :
                          Columnas(entrada[1][j]) # Columnas(entrada[1][i])
          /\ SeqToSet(df[1]) \subseteq SeqToSet(entrada[1])
          /\ \A i, j \in DOMAIN df[1] :
                i < j => Posicion(entrada[1], df[1][i]) < Posicion(entrada[1], df[1][j])
    /\ pasos = 2 => df[1] = entrada[1]

C8_Witness ==
    /\ pasos = 1
    /\ Len(entrada[1]) = 3
    /\ Columnas(entrada[1][1]) = Columnas(entrada[1][3])
    /\ ~SinNulosCriticos(entrada[1][2])
    /\ Len(df[1]) = 1

(* C10: in a pipeline run the validator receives no row with a missing
   critical field, so its missing-value rules select nothing, and no line of
   the rejects sink or of the snapshot holds a missing critical field. *)
C10_SinNulosEnRechazos ==
    /\ \A i \in DOMAIN FilasDe(archRechazos) :
          SinNulosCriticos(Valor(FilasDe(archRechazos)[i].datos))
    /\ \A i \in DOMAIN FilasDe(archProcesado) :
          SinNulosCriticos(Valor(FilasDe(archProcesado)[i].datos))
    /\ pc[1] = "validar" =>
          \A i \in DOMAIN df[1] :
              /\ ~mask_fecha_invalida(df[1][i])
              /\ notna(df[1][i].precio_unitario)
              /\ notna(df[1][i].cantidad)
              /\ notna(df[1][i].producto)
    /\ \A i \in DOMAIN rechazados[1] : SinNulosCriticos(rechazados[1][i])

C10_Witness ==
    /\ pc[1] = "fin"
    /\ nulos[1] > 0
    /\ rechazados[1] # <<>>
    /\ FilasDe(archRechazos) # <<>>

TrasAgregar(p) ==
    pc[p] \in {"modo_reporte", "encabezado_reporte", "escribir_reporte", "tops",
               "fin"}

MiembrosGrupo(v, fila) ==
    {i \in DOMAIN v :
        /\ Algun(Valor(v[i].fecha)[1]) = fila.fecha
        /\ v[i].sucursal = fila.sucursal}

(* C4: the daily summary holds exactly one row per distinct (calendar date
   of fecha, sucursal) pair of the valid rows, a missing sucursal included;
   ventas_totales is the group's sum of cantidad * precio_unitario, unidades
   its sum of cantidad, tickets its number of rows, ticket_promedio the
   quotient ventas_totales / tickets (missing when tickets = 0); the
   ventas_totales add up to the sum of monto_total. *)
C4_ResumenDiario ==
    TrasAgregar(1) =>
        LET v == entrada[1]
            m == df[1]
            g == resumen[1]
        IN /\ {<<g[j].fecha, g[j].sucursal>> : j \in DOMAIN g}
                = {<<Algun(Valor(v[i].fecha)[1]), v[i].sucursal>> : i \in DOMAIN v}
           /\ \A j, k \in DOMAIN g :
                 (g[j].fecha = g[k].fecha /\ g[j].sucursal = g[k].sucursal) => j = k
           /\ \A j \in DOMAIN g :
                 LET G == MiembrosGrupo(v, g[j])
                 IN /\ g[j].ventas_totales =
                          SumaConj([i \in DOMAIN v |->
                              Valor(v[i].cantidad) * Valor(v[i].precio_unitario)], G)
                    /\ g[j].unidades =
                          SumaConj([i \in DOMAIN v |-> Valor(v[i].cantidad)], G)
                    /\ g[j].tickets = Cardinality(G)
                    /\ g[j].tickets = 0 => isna(g[j].ticket_promedio)
                    /\ g[j].tickets # 0 =>
                          /\ notna(g[j].ticket_promedio)
                          /\ Valor(g[j].ticket_promedio)[2] > 0
                          /\ Valor(g[j].ticket_promedio)[1] * g[j].tickets
                                = g[j].ventas_totales * Valor(g[j].ticket_promedio)[2]
           /\ \A i \in DOMAIN m :
                 m[i].monto_total =
                    Algun(Valor(v[i].cantidad) * Valor(v[i].precio_unitario))
           /\ SumaConj([j \in DOMAIN g |-> g[j].ventas_totales], DOMAIN g)
                = SumaConj([i \in DOMAIN m |-> Valor(m[i].monto_total)], DOMAIN m)

C4_Witness ==
    /\ pc[1] = "modo_reporte"
    /\ Len(resumen[1]) = 1
    /\ isna(resumen[1][1].sucursal)
    /\ resumen[1][1].tickets = 2
    /\ entrada[1][1].fecha # entrada[1][2].fecha
    /\ Valor(resumen[1][1].ticket_promedio)[2] = 2

ProductosDe(m) == {Valor(m[i].producto) : i \in DOMAIN m}

RankingDeProductos ==
    LET m == df[1]
        n == top_prod[1].n
        g == top_prod[1].g
    IN /\ Len(g) = Min(n, Cardinality(ProductosDe(m)))
       /\ \A k, l \in DOMAIN g : g[k].clave = g[l].clave => k = l
       /\ \A k \in DOMAIN g :
             /\ g[k].clave \in ProductosDe(m)
             /\ g[k].monto_total =
                   SumaConj([i \in DOMAIN m |-> Valor(m[i].monto_total)],
                            {i \in DOMAIN m : Valor(m[i].producto) = g[k].clave})

(* C5 as stated: the ranking top_productos(df, n) holds each product's summed
   monto_total, each entry's sum is strictly greater than the next entry's,
   and its length is min(n, number of distinct products). *)
C5_EstrictamenteDescendente ==
    pc[1] = "fin" =>
        /\ RankingDeProductos
        /\ \A k \in 1..(Len(top_prod[1].g) - 1) :
              top_prod[1].g[k].monto_total > top_prod[1].g[k + 1].monto_total

(* C5 as amended: the ranking top_productos(df, n) holds each product's
   summed monto_total, no entry's sum is smaller than the next entry's, and
   its length is min(n, number of distinct products). *)
C5_NoCreciente ==
    pc[1] = "fin" =>
        /\ RankingDeProductos
        /\ \A k \in 1..(Len(top_prod[1].g) - 1) :
              top_prod[1].g[k].monto_total >= top_prod[1].g[k + 1].monto_total

C5_Witness ==
    /\ pc[1] = "fin"
    /\ top_prod[1].n = 2
    /\ Len(top_prod[1].g) = 2
    /\ top_prod[1].g[1].monto_total = top_prod[1].g[2].monto_total

EscribeRechazos(p) == pc[p] = "escribir_rechazos" /\ pc'[p] = "estandarizar"
EscribeReporte(p) == pc[p] = "escribir_reporte" /\ pc'[p] = "tops"

(* The file after the write is not its earlier content followed by the rows *)
NoAnexado(archivo, archivoSig, filas) ==
    Valor(archivoSig) # Valor(archivo) \o Lineas(filas, FALSE)

(* The file holds one header, first, and as many rows as the two runs wrote *)
Intacto(archivo, k) ==
    /\ EncabezadoUnico(archivo)
    /\ Len(FilasDe(archivo)) = k

(* C9: with two runs executing concurrently, a run whose existence check
   picked mode "w" before the other run created the file overwrites what the
   other run wrote: the rejects sink, or a report that held rows, is
   afterwards not its earlier content followed by the run's rows. *)
C9_CarreraPisaArchivo ==
    [][\A p \in Corridas :
          /\ (EscribeRechazos(p) /\ modo[p] = "w" /\ exists(archRechazos)) =>
                NoAnexado(archRechazos, archRechazos', SinIndice(rechazados[p]))
          /\ (EscribeReporte(p) /\ modo[p] = "w" /\ exists(archReporte)
                /\ FilasDe(archReporte) # <<>>) =>
                NoAnexado(archReporte, archReporte', resumen[p])]_vars

C9_Witness ==
    /\ pc[1] = "fin"
    /\ pc[2] = "fin"
    /\ rechazados[1] # <<>>
    /\ rechazados[2] # <<>>
    /\ ~Intacto(archRechazos, Len(rechazados[1]) + Len(rechazados[2]))
    /\ ~Intacto(archReporte, Len(resumen[1]) + Len(resumen[2]))

====
